---- MODULE Spec2Model ----
(***************************************************************************)
(* Model of cq_enclosure: the parameter model (EnclosureParameters), the   *)
(* screw layout solver (builders.compute_screw_points) and the build       *)
(* orchestrator (Enclosure.build) with the parameter-derived footprint of  *)
(* every pipeline step.                                                    *)
(*                                                                         *)
(* Lengths are integers in micrometres (1.0 mm = 1000), so 0.4 is 400 and  *)
(* the fillet epsilon 1e-3 is 1.  Python's "/" is \div on micrometres and  *)
(* sqrt(2) is the rational 14142/10000.  gasket_compression is a ratio in  *)
(* thousandths.  Enum members are strings carrying the member's name; any  *)
(* other string is a value that is not a member of the enum.               *)
(***************************************************************************)
EXTENDS Integers, Sequences, FiniteSets, TLC

VARIABLES
    p,            \* the Enclosure instance: its primary fields
    user,         \* the primary fields as the user supplied them
    pc,           \* position of the running build(), or how the last one ended
    steps,        \* the steps the current build() has executed, in order
    screw_points, \* the list compute_screw_points returned to build()
    box,          \* the Box solid threaded through the pipeline
    lid,          \* the Lid solid
    gasket,       \* the Gasket solid
    result,       \* what build() returned: <<>> or the three solids' names
    error,        \* the message of the ValueError that ended the call, or ""
    last,         \* the last direct call of a method of the parameter model
    builds,       \* number of build() calls on the instance
    assigns,      \* number of attribute assignments made after construction
    calls         \* number of direct method calls

vars == <<p, user, pc, steps, screw_points, box, lid, gasket, result, error,
          last, builds, assigns, calls>>

\* ------------------------------------------------------------------ bounds

MaxBuilds == 2
MaxAssigns == 1
MaxCalls == 2

\* ------------------------------------------------------------------- enums

NutPrintingWA == {"CUT_RECT_SPACES", "ADD_CEILING"}
ScrewLocation == {"INSIDE_BOX", "OUTSIDE_BOX"}
ScrewType == {"WOOD_SCREW", "WITH_SQUARE_NUT"}

\* A value that is a member of no enum.
NotAMember == "NOT_A_MEMBER"

\* ------------------------------------------------- arithmetic of the source

Max(a, b) == IF a >= b THEN a ELSE b

\* math.ceil of a length, in whole millimetres
Ceil(x) == ((x + 999) \div 1000) * 1000

\* x * math.sqrt(2)
TimesSqrt2(x) == (x * 14142) \div 10000

\* -------------------------------------------------- fixed expert dimensions

wall_thickness == 3000
bottom_and_lid_thickness == 2000
screw_cylinder_fillet == 2001
inner_fillet == 2002
bottom_lid_fillet == 1000
outer_vertical_edges_fillet == 2001
gasket_fillet == 2004
mount_holders_fillet_radius == 3000

\* ------------------------------------------------------ derived dimensions

screw_cylinder_radius(q) ==
    LET base_radius == Max(q.screw_hole_diameter, 3000)
        nut_radius == TimesSqrt2(q.square_nut_width) \div 2
    IN  (IF q.screw_type = "WITH_SQUARE_NUT"
            THEN Max(nut_radius, base_radius)
            ELSE base_radius) + 1600

square_nut_depth_placement(q) == q.screw_total_length - 4000
lid_screw_hole_diameter(q) == q.screw_hole_diameter + 1000
box_screw_hole_radius(q) == q.screw_hole_diameter \div 2

\* One wall counted instead of two.
box_outer_width_one_wall(q) == q.box_inner_width + wall_thickness

box_outer_width(q) == q.box_inner_width + 2 * wall_thickness
box_outer_length(q) == q.box_inner_length + 2 * wall_thickness
box_outer_height(q) == q.box_inner_height + 2 * bottom_and_lid_thickness

gasket_in_slot_distance(q) == q.gasket_spacing * 2

gasket_slot_outer_width(q) ==
    box_outer_width(q) - wall_thickness + q.gasket_width + gasket_in_slot_distance(q)
gasket_slot_outer_length(q) ==
    box_outer_length(q) - wall_thickness + q.gasket_width + gasket_in_slot_distance(q)
gasket_slot_inner_width(q) ==
    box_outer_width(q) - wall_thickness - q.gasket_width - gasket_in_slot_distance(q)
gasket_slot_inner_length(q) ==
    box_outer_length(q) - wall_thickness - q.gasket_width - gasket_in_slot_distance(q)

gasket_outer_width(q) == gasket_slot_outer_width(q) - gasket_in_slot_distance(q)
gasket_outer_length(q) == gasket_slot_outer_length(q) - gasket_in_slot_distance(q)
gasket_inner_width(q) == gasket_slot_inner_width(q) + gasket_in_slot_distance(q)
gasket_inner_length(q) == gasket_slot_inner_length(q) + gasket_in_slot_distance(q)

gasket_slot_width(q) == q.gasket_width + gasket_in_slot_distance(q)
mount_holders_total_length(q) == box_outer_length(q) + 2 * q.mount_holder_length
gasket_slot_depth(q) == q.gasket_height * 2
gasket_press_height(q) == (q.gasket_height * (1000 + q.gasket_compression)) \div 1000

\* -------------------------------------------------------------- initialize

\* A clearance added to the wrong field's amount (0.5 to the nut height).
add_clearances_slip(q) ==
    [q EXCEPT !.square_nut_width = @ + 400,
              !.square_nut_height = @ + 500,
              !.screw_head_diameter = @ + 500,
              !.screw_total_length = @ + 1000]

\* initialize(), the four `+=`
add_clearances(q) ==
    [q EXCEPT !.square_nut_width = @ + 400,
              !.square_nut_height = @ + 400,
              !.screw_head_diameter = @ + 500,
              !.screw_total_length = @ + 1000]

\* The inner dimensions grown by one cylinder's intrusion, not by both.
inflate_inner_one_side(q) ==
    LET q1 == IF /\ q.screw_location = "INSIDE_BOX"
                 /\ (q.corner_screws \/ q.middle_length_screws)
                 /\ q.actual_inner_width
              THEN [q EXCEPT !.box_inner_width =
                        @ + (2 * screw_cylinder_radius(q) - wall_thickness)]
              ELSE q
    IN  IF /\ q1.screw_location = "INSIDE_BOX"
           /\ (q1.corner_screws \/ q1.middle_width_screws)
           /\ q1.actual_inner_length
        THEN [q1 EXCEPT !.box_inner_length =
                  @ + (2 * screw_cylinder_radius(q1) - wall_thickness)]
        ELSE q1

\* initialize(), `if self.screw_location == ScrewLocation.INSIDE_BOX`
inflate_inner(q) ==
    LET q1 == IF /\ q.screw_location = "INSIDE_BOX"
                 /\ (q.corner_screws \/ q.middle_length_screws)
                 /\ q.actual_inner_width
              THEN [q EXCEPT !.box_inner_width =
                        @ + 2 * (2 * screw_cylinder_radius(q) - wall_thickness)]
              ELSE q
    IN  IF /\ q1.screw_location = "INSIDE_BOX"
           /\ (q1.corner_screws \/ q1.middle_width_screws)
           /\ q1.actual_inner_length
        THEN [q1 EXCEPT !.box_inner_length =
                  @ + 2 * (2 * screw_cylinder_radius(q1) - wall_thickness)]
        ELSE q1

\* The holder length raised to two radii instead of four.
raise_holder_length_two_radii(q) ==
    IF /\ q.mount_holders
       /\ q.middle_width_screws
       /\ q.screw_location = "OUTSIDE_BOX"
    THEN [q EXCEPT !.mount_holder_length =
                       Max(@, Ceil(screw_cylinder_radius(q) * 2))]
    ELSE q

\* initialize(), the mount-holder `if`
raise_holder_length(q) ==
    IF /\ q.mount_holders
       /\ q.middle_width_screws
       /\ q.screw_location = "OUTSIDE_BOX"
    THEN [q EXCEPT !.mount_holder_length =
                       Max(@, Ceil(screw_cylinder_radius(q) * 4))]
    ELSE q

initialize(q) == raise_holder_length(inflate_inner(add_clearances(q)))

\* ---------------------------------------------------------------- validate

\* validate() without its mount_holder_length check.
validate_no_holder_check(q) ==
    IF ~q.corner_screws /\ ~q.middle_length_screws /\ ~q.middle_width_screws
    THEN "Cannot generate enclosure without screws."
    ELSE IF q.screw_hole_diameter < 2000 \/ q.screw_hole_diameter > 6000
    THEN "Screw hole diameter must be between 2.0 and 6.0."
    ELSE IF q.box_inner_width > q.box_inner_length
    THEN "Inner width must be smaller or equal to inner length."
    ELSE IF /\ q.screw_location = "OUTSIDE_BOX"
            /\ q.box_inner_width < 31000
            /\ q.mount_holders
            /\ q.corner_screws
    THEN "box_outer_width must be at least 31.0"
    ELSE ""

\* The message of the ValueError validate() raises, or "" when it returns.
validate(q) ==
    IF ~q.corner_screws /\ ~q.middle_length_screws /\ ~q.middle_width_screws
    THEN "Cannot generate enclosure without screws."
    ELSE IF q.screw_hole_diameter < 2000 \/ q.screw_hole_diameter > 6000
    THEN "Screw hole diameter must be between 2.0 and 6.0."
    ELSE IF q.box_inner_width > q.box_inner_length
    THEN "Inner width must be smaller or equal to inner length."
    ELSE IF /\ q.mount_holders
            /\ q.middle_width_screws
            /\ q.screw_location = "OUTSIDE_BOX"
            /\ q.mount_holder_length < screw_cylinder_radius(q) * 4
    THEN "mount_holder_length has to be at least 4 * screw_cylinder_radius"
    ELSE IF /\ q.screw_location = "OUTSIDE_BOX"
            /\ q.box_inner_width < 31000
            /\ q.mount_holders
            /\ q.corner_screws
    THEN "box_outer_width must be at least 31.0"
    ELSE ""

\* ---------------------------------------------------- compute_screw_points

screw_width_loc(q) ==
    IF q.screw_location = "INSIDE_BOX"
    THEN q.box_inner_width \div 2 - screw_cylinder_radius(q) + wall_thickness
    ELSE box_outer_width(q) \div 2 + screw_cylinder_radius(q) - wall_thickness

screw_lenght_loc(q) ==
    IF q.screw_location = "INSIDE_BOX"
    THEN q.box_inner_length \div 2 - screw_cylinder_radius(q) + wall_thickness
    ELSE box_outer_length(q) \div 2 + screw_cylinder_radius(q) - wall_thickness

\* The `case _` of the match: the ValueError's message, or "".
screw_points_error(q) ==
    IF q.screw_location \in ScrewLocation THEN "" ELSE "Invalid screws location."

\* The middle-width points placed with the width offset.
compute_screw_points_width_slip(q) ==
    LET x == screw_width_loc(q)
        y == screw_lenght_loc(q)
    IN  (IF q.corner_screws
            THEN << <<x, y>>, <<-x, -y>>, <<x, -y>>, <<-x, y>> >> ELSE << >>)
        \o (IF q.middle_length_screws THEN << <<-x, 0>>, <<x, 0>> >> ELSE << >>)
        \o (IF q.middle_width_screws THEN << <<0, -x>>, <<0, x>> >> ELSE << >>)

\* The last corner repeats the third (its sign not flipped).
compute_screw_points_corner_slip(q) ==
    LET x == screw_width_loc(q)
        y == screw_lenght_loc(q)
    IN  (IF q.corner_screws
            THEN << <<x, y>>, <<-x, -y>>, <<x, -y>>, <<x, -y>> >> ELSE << >>)
        \o (IF q.middle_length_screws THEN << <<-x, 0>>, <<x, 0>> >> ELSE << >>)
        \o (IF q.middle_width_screws THEN << <<0, -y>>, <<0, y>> >> ELSE << >>)

compute_screw_points(q) ==
    LET x == screw_width_loc(q)
        y == screw_lenght_loc(q)
    IN  (IF q.corner_screws
            THEN << <<x, y>>, <<-x, -y>>, <<x, -y>>, <<-x, y>> >> ELSE << >>)
        \o (IF q.middle_length_screws THEN << <<-x, 0>>, <<x, 0>> >> ELSE << >>)
        \o (IF q.middle_width_screws THEN << <<0, -y>>, <<0, y>> >> ELSE << >>)

\* ------------------------------------------------------------------ solids

NoBox ==
    [made |-> FALSE,
     outer_width |-> 0, outer_length |-> 0, outer_height |-> 0,
     inner_width |-> 0, inner_length |-> 0, inner_height |-> 0,
     bosses |-> << >>, boss_radius |-> 0,
     holes |-> << >>, csk_diameter |-> 0, hole_depth |-> 0,
     top_fillets |-> 0, bottom_fillets |-> 0,
     nut_width |-> 0, nut_height |-> 0, nut_depth |-> 0, nut_wa |-> "",
     slot_outer_width |-> 0, slot_outer_length |-> 0,
     slot_inner_width |-> 0, slot_inner_length |-> 0, slot_depth |-> 0,
     holders |-> FALSE, holders_total_length |-> 0, holder_holes_spread |-> 0]

NoLid ==
    [made |-> FALSE,
     press_outer_width |-> 0, press_outer_length |-> 0,
     press_inner_width |-> 0, press_inner_length |-> 0, press_height |-> 0]

NoGasket ==
    [made |-> FALSE,
     outer_width |-> 0, outer_length |-> 0,
     inner_width |-> 0, inner_length |-> 0, height |-> 0]

build_box(q) ==
    [NoBox EXCEPT !.made = TRUE,
                  !.outer_width = box_outer_width(q),
                  !.outer_length = box_outer_length(q),
                  !.outer_height = box_outer_height(q),
                  !.inner_width = q.box_inner_width,
                  !.inner_length = q.box_inner_length,
                  !.inner_height = q.box_inner_height]

build_screw_cylinders(q, b, pts) ==
    [b EXCEPT !.bosses = pts, !.boss_radius = screw_cylinder_radius(q)]

create_screw_holes(q, b, pts) ==
    [b EXCEPT !.holes = pts,
              !.csk_diameter = q.screw_head_diameter,
              !.hole_depth = q.screw_total_length]

\* The `case _` of fillet_box's match.
fillet_box_error(q) ==
    IF q.screw_location \in ScrewLocation THEN "" ELSE "Invalid screws location."

\* The bottom filleted whether or not mount holders follow.
fillet_box_ignores_holders(q, b) ==
    [b EXCEPT !.top_fillets = IF q.fillet_top THEN @ + 1 ELSE @,
              !.bottom_fillets = IF q.fillet_bottom THEN @ + 1 ELSE @]

fillet_box(q, b) ==
    [b EXCEPT !.top_fillets = IF q.fillet_top THEN @ + 1 ELSE @,
              !.bottom_fillets =
                  IF q.fillet_bottom /\ q.mount_holders = FALSE THEN @ + 1 ELSE @]

\* The `case _` of create_square_nut_holes' match.
square_nut_holes_error(q) ==
    IF q.nut_wa_type \in NutPrintingWA THEN "" ELSE "Invalid nut_wa_type."

create_square_nut_holes(q, b, pts) ==
    [b EXCEPT !.nut_width = q.square_nut_width,
              !.nut_height = q.square_nut_height,
              !.nut_depth = square_nut_depth_placement(q),
              !.nut_wa = q.nut_wa_type]

\* split_box: the part under the cut stays the Box, the part above is the Lid.
split_box_lid(q, b) == [NoLid EXCEPT !.made = TRUE]

create_gasket_slot(q, b, pts) ==
    [b EXCEPT !.slot_outer_width = gasket_slot_outer_width(q),
              !.slot_outer_length = gasket_slot_outer_length(q),
              !.slot_inner_width = gasket_slot_inner_width(q),
              !.slot_inner_length = gasket_slot_inner_length(q),
              !.slot_depth = gasket_slot_depth(q)]

\* The press sketched with the groove's rectangles.
create_gasket_press_as_slot(q, l, pts) ==
    [l EXCEPT !.press_outer_width = gasket_slot_outer_width(q),
              !.press_outer_length = gasket_slot_outer_length(q),
              !.press_inner_width = gasket_slot_inner_width(q),
              !.press_inner_length = gasket_slot_inner_length(q),
              !.press_height = gasket_press_height(q)]

create_gasket_press(q, l, pts) ==
    [l EXCEPT !.press_outer_width = gasket_outer_width(q),
              !.press_outer_length = gasket_outer_length(q),
              !.press_inner_width = gasket_inner_width(q),
              !.press_inner_length = gasket_inner_length(q),
              !.press_height = gasket_press_height(q)]

build_gasket(q, pts) ==
    [NoGasket EXCEPT !.made = TRUE,
                     !.outer_width = gasket_outer_width(q),
                     !.outer_length = gasket_outer_length(q),
                     !.inner_width = gasket_inner_width(q),
                     !.inner_length = gasket_inner_length(q),
                     !.height = q.gasket_height]

build_mount_holders(q, b) ==
    LET loc == box_outer_length(q) \div 2 + screw_cylinder_radius(q) - wall_thickness
        outer_len_with_cylinders == (loc + screw_cylinder_radius(q)) * 2
        holder_holes_spread ==
            IF q.middle_width_screws /\ q.screw_location = "OUTSIDE_BOX"
            THEN outer_len_with_cylinders
                 + (mount_holders_total_length(q) - outer_len_with_cylinders) \div 2
            ELSE box_outer_length(q)
                 + (mount_holders_total_length(q) - box_outer_length(q)) \div 2
    IN  [b EXCEPT !.holders = TRUE,
                  !.holders_total_length = mount_holders_total_length(q),
                  !.bottom_fillets = @ + 1,
                  !.holder_holes_spread = holder_holes_spread]

\* --------------------------------------------------- Enclosure.build: flow

\* The nut pockets cut whatever the fastening mode.
nut_step_runs_always(q) == TRUE

\* `if self.screw_type == ScrewType.WITH_SQUARE_NUT`
nut_step_runs(q) == q.screw_type = "WITH_SQUARE_NUT"

\* `if self.mount_holders`
mount_step_runs(q) == q.mount_holders

NotRunning == {"idle", "returned", "raised"}

Raise(msg) ==
    /\ pc' = "raised"
    /\ error' = msg

\* build() is entered and runs self.initialize()
Initialize ==
    /\ pc \in NotRunning
    /\ builds < MaxBuilds
    /\ builds' = builds + 1
    /\ p' = initialize(p)
    /\ pc' = "validate"
    /\ steps' = <<"initialize">>
    /\ screw_points' = << >>
    /\ box' = NoBox
    /\ lid' = NoLid
    /\ gasket' = NoGasket
    /\ result' = << >>
    /\ error' = ""
    /\ UNCHANGED <<user, last, assigns, calls>>

\* validate()'s error swallowed: the build goes on.
Validate_swallowed ==
    /\ pc = "validate"
    /\ steps' = Append(steps, "validate")
    /\ pc' = "instantiate_selectors"
    /\ UNCHANGED <<p, user, screw_points, box, lid, gasket, result, error, last,
                   builds, assigns, calls>>

Validate ==
    /\ pc = "validate"
    /\ steps' = Append(steps, "validate")
    /\ IF validate(p) # ""
       THEN Raise(validate(p))
       ELSE pc' = "instantiate_selectors" /\ error' = error
    /\ UNCHANGED <<p, user, screw_points, box, lid, gasket, result, last,
                   builds, assigns, calls>>

InstantiateSelectors ==
    /\ pc = "instantiate_selectors"
    /\ steps' = Append(steps, "instantiate_selectors")
    /\ pc' = "compute_screw_points"
    /\ UNCHANGED <<p, user, screw_points, box, lid, gasket, result, error, last,
                   builds, assigns, calls>>

ComputeScrewPoints ==
    /\ pc = "compute_screw_points"
    /\ steps' = Append(steps, "compute_screw_points")
    /\ IF screw_points_error(p) # ""
       THEN Raise(screw_points_error(p)) /\ screw_points' = screw_points
       ELSE /\ screw_points' = compute_screw_points(p)
            /\ pc' = "build_box"
            /\ error' = error
    /\ UNCHANGED <<p, user, box, lid, gasket, result, last, builds, assigns, calls>>

BuildBox ==
    /\ pc = "build_box"
    /\ steps' = Append(steps, "build_box")
    /\ box' = build_box(p)
    /\ pc' = "build_screw_cylinders"
    /\ UNCHANGED <<p, user, screw_points, lid, gasket, result, error, last,
                   builds, assigns, calls>>

BuildScrewCylinders ==
    /\ pc = "build_screw_cylinders"
    /\ steps' = Append(steps, "build_screw_cylinders")
    /\ box' = build_screw_cylinders(p, box, screw_points)
    /\ pc' = "create_screw_holes"
    /\ UNCHANGED <<p, user, screw_points, lid, gasket, result, error, last,
                   builds, assigns, calls>>

CreateScrewHoles ==
    /\ pc = "create_screw_holes"
    /\ steps' = Append(steps, "create_screw_holes")
    /\ box' = create_screw_holes(p, box, screw_points)
    /\ pc' = "fillet_box"
    /\ UNCHANGED <<p, user, screw_points, lid, gasket, result, error, last,
                   builds, assigns, calls>>

FilletBox ==
    /\ pc = "fillet_box"
    /\ steps' = Append(steps, "fillet_box")
    /\ IF fillet_box_error(p) # ""
       THEN Raise(fillet_box_error(p)) /\ box' = box
       ELSE /\ box' = fillet_box(p, box)
            /\ pc' = IF nut_step_runs(p) THEN "create_square_nut_holes"
                                         ELSE "split_box"
            /\ error' = error
    /\ UNCHANGED <<p, user, screw_points, lid, gasket, result, last,
                   builds, assigns, calls>>

CreateSquareNutHoles ==
    /\ pc = "create_square_nut_holes"
    /\ steps' = Append(steps, "create_square_nut_holes")
    /\ IF square_nut_holes_error(p) # ""
       THEN Raise(square_nut_holes_error(p)) /\ box' = box
       ELSE /\ box' = create_square_nut_holes(p, box, screw_points)
            /\ pc' = "split_box"
            /\ error' = error
    /\ UNCHANGED <<p, user, screw_points, lid, gasket, result, last,
                   builds, assigns, calls>>

SplitBox ==
    /\ pc = "split_box"
    /\ steps' = Append(steps, "split_box")
    /\ lid' = split_box_lid(p, box)
    /\ pc' = "create_gasket_slot"
    /\ UNCHANGED <<p, user, screw_points, box, gasket, result, error, last,
                   builds, assigns, calls>>

CreateGasketSlot ==
    /\ pc = "create_gasket_slot"
    /\ steps' = Append(steps, "create_gasket_slot")
    /\ box' = create_gasket_slot(p, box, screw_points)
    /\ pc' = "create_gasket_press"
    /\ UNCHANGED <<p, user, screw_points, lid, gasket, result, error, last,
                   builds, assigns, calls>>

CreateGasketPress ==
    /\ pc = "create_gasket_press"
    /\ steps' = Append(steps, "create_gasket_press")
    /\ lid' = create_gasket_press(p, lid, screw_points)
    /\ pc' = "build_gasket"
    /\ UNCHANGED <<p, user, screw_points, box, gasket, result, error, last,
                   builds, assigns, calls>>

BuildGasket ==
    /\ pc = "build_gasket"
    /\ steps' = Append(steps, "build_gasket")
    /\ gasket' = build_gasket(p, screw_points)
    /\ pc' = "apply_gasket_fillets"
    /\ UNCHANGED <<p, user, screw_points, box, lid, result, error, last,
                   builds, assigns, calls>>

ApplyGasketFillets ==
    /\ pc = "apply_gasket_fillets"
    /\ steps' = Append(steps, "apply_gasket_fillets")
    /\ pc' = IF mount_step_runs(p) THEN "build_mount_holders" ELSE "return"
    /\ UNCHANGED <<p, user, screw_points, box, lid, gasket, result, error, last,
                   builds, assigns, calls>>

BuildMountHolders ==
    /\ pc = "build_mount_holders"
    /\ steps' = Append(steps, "build_mount_holders")
    /\ box' = build_mount_holders(p, box)
    /\ pc' = "return"
    /\ UNCHANGED <<p, user, screw_points, lid, gasket, result, error, last,
                   builds, assigns, calls>>

\* `return box, lid, gasket`
Return ==
    /\ pc = "return"
    /\ result' = <<"box", "lid", "gasket">>
    /\ pc' = "returned"
    /\ UNCHANGED <<p, user, steps, screw_points, box, lid, gasket, error, last,
                   builds, assigns, calls>>

\* --------------------------------------------- construction and assignment

\* The field defaults of EnclosureParameters; the three inner dimensions have
\* no default and carry the values of examples/generic_enclosure.py here.
Defaults ==
    [box_inner_width |-> 31000,
     box_inner_length |-> 71000,
     box_inner_height |-> 16000,
     actual_inner_width |-> TRUE,
     actual_inner_length |-> TRUE,
     cut_top |-> 5000,
     screw_hole_diameter |-> 3300,
     screw_head_diameter |-> 6000,
     screw_total_length |-> 16000,
     screw_location |-> "OUTSIDE_BOX",
     screw_type |-> "WOOD_SCREW",
     corner_screws |-> TRUE,
     middle_length_screws |-> FALSE,
     middle_width_screws |-> FALSE,
     square_nut_width |-> 5500,
     square_nut_height |-> 1800,
     nut_wa_type |-> "ADD_CEILING",
     gasket_height |-> 1600,
     gasket_width |-> 1200,
     gasket_spacing |-> 150,
     gasket_compression |-> 200,
     mount_holders |-> TRUE,
     mount_holder_length |-> 15000,
     mount_holders_screw_hole_diameter |-> 5000,
     mount_holders_head_screw_diameter |-> 9000,
     mount_holders_fillet |-> TRUE,
     layer_height |-> 280,
     fillet_bottom |-> TRUE,
     fillet_top |-> TRUE]

\* The values the model draws the user's arguments from.
Dimensions == {<<29000, 71000>>, <<31000, 71000>>, <<31000, 30000>>}
\* <<screw_hole_diameter, gasket_spacing, fillet_bottom, mount_holder_length>>:
\* the defaults, and each of the four set off its default.
Variants ==
    {<<3300, 150, TRUE, 15000>>,
     <<1500, 150, TRUE, 15000>>, <<6500, 150, TRUE, 15000>>,
     <<3300, 0, TRUE, 15000>>,
     <<3300, 150, FALSE, 15000>>,
     <<3300, 150, TRUE, 25000>>}

\* A box whose inner width is 2 * (screw_cylinder_radius - wall_thickness) for
\* a 3.4 screw hole: Enclosure(box_inner_width=4.0, screw_hole_diameter=3.4).
NarrowDimensions == {<<4000, 71000>>}
NarrowVariants == {<<3400, 150, TRUE, 15000>>}

\* Enclosure(...) with these arguments and every other field at its default.
Construct(wl, v, loc, ty, fl) ==
    [Defaults EXCEPT !.box_inner_width = wl[1],
                     !.box_inner_length = wl[2],
                     !.screw_hole_diameter = v[1],
                     !.gasket_spacing = v[2],
                     !.fillet_bottom = v[3],
                     !.mount_holder_length = v[4],
                     !.screw_location = loc,
                     !.screw_type = ty,
                     !.corner_screws = fl[1],
                     !.middle_length_screws = fl[2],
                     !.middle_width_screws = fl[3],
                     !.actual_inner_width = fl[4],
                     !.actual_inner_length = fl[5],
                     !.mount_holders = fl[6]]

\* Enclosure(...): pydantic admits only members of the enums.
Constructed ==
    { Construct(wl, v, loc, ty, fl) :
        wl \in Dimensions, v \in Variants,
        loc \in ScrewLocation, ty \in ScrewType, fl \in [1..6 -> BOOLEAN] }
    \cup
    { Construct(wl, v, loc, ty, fl) :
        wl \in NarrowDimensions, v \in NarrowVariants,
        loc \in ScrewLocation, ty \in ScrewType, fl \in [1..6 -> BOOLEAN] }

Init ==
    /\ p \in Constructed
    /\ user = p
    /\ pc = "idle"
    /\ steps = << >>
    /\ screw_points = << >>
    /\ box = NoBox
    /\ lid = NoLid
    /\ gasket = NoGasket
    /\ result = << >>
    /\ error = ""
    /\ last = [op |-> "", pre |-> p, points |-> << >>]
    /\ builds = 0
    /\ assigns = 0
    /\ calls = 0

\* What an assignment `e.<field> = <value>` may store (pydantic does not check
\* assignments, so an enum field can receive a value that is no member).
Assignments ==
    { [p EXCEPT !.screw_location = v] : v \in {NotAMember} }
    \cup { [p EXCEPT !.nut_wa_type = v] : v \in {"CUT_RECT_SPACES", NotAMember} }
    \cup { [p EXCEPT !.box_inner_width = v] : v \in {29000, 31000} }

\* An attribute of the instance is assigned between two calls.
Assign ==
    /\ pc \in NotRunning
    /\ assigns < MaxAssigns
    /\ assigns' = assigns + 1
    /\ \E q \in Assignments :
          /\ q # p
          /\ p' = q
          /\ user' = [f \in DOMAIN user |-> IF q[f] # p[f] THEN q[f] ELSE user[f]]
    /\ pc' = "idle"
    /\ steps' = << >>
    /\ result' = << >>
    /\ error' = ""
    /\ last' = [op |-> "assign", pre |-> p, points |-> << >>]
    /\ UNCHANGED <<screw_points, box, lid, gasket, builds, calls>>

\* ------------------------------------ direct calls of the parameter model

CallInitialize ==
    /\ pc = "idle"
    /\ calls < MaxCalls
    /\ calls' = calls + 1
    /\ p' = initialize(p)
    /\ last' = [op |-> "initialize", pre |-> p, points |-> << >>]
    /\ error' = ""
    /\ UNCHANGED <<user, pc, steps, screw_points, box, lid, gasket, result,
                   builds, assigns>>

CallValidate ==
    /\ pc = "idle"
    /\ calls < MaxCalls
    /\ calls' = calls + 1
    /\ last' = [op |-> "validate", pre |-> p, points |-> << >>]
    /\ error' = validate(p)
    /\ UNCHANGED <<p, user, pc, steps, screw_points, box, lid, gasket, result,
                   builds, assigns>>

CallComputeScrewPoints ==
    /\ pc = "idle"
    /\ calls < MaxCalls
    /\ calls' = calls + 1
    /\ error' = screw_points_error(p)
    /\ last' = [op |-> "compute_screw_points", pre |-> p,
                points |-> IF screw_points_error(p) # ""
                           THEN << >> ELSE compute_screw_points(p)]
    /\ UNCHANGED <<p, user, pc, steps, screw_points, box, lid, gasket, result,
                   builds, assigns>>

\* ----------------------------------------------------------- specifications

Build ==
    \/ Initialize
    \/ Validate
    \/ InstantiateSelectors
    \/ ComputeScrewPoints
    \/ BuildBox
    \/ BuildScrewCylinders
    \/ CreateScrewHoles
    \/ FilletBox
    \/ CreateSquareNutHoles
    \/ SplitBox
    \/ CreateGasketSlot
    \/ CreateGasketPress
    \/ BuildGasket
    \/ ApplyGasketFillets
    \/ BuildMountHolders
    \/ Return

Next == Build \/ Assign

\* Enclosure.build() called on one instance, with assignments between calls.
Spec == Init /\ [][Next]_vars

NextAPI == CallInitialize \/ CallValidate \/ CallComputeScrewPoints \/ Assign

\* The methods of the parameter model and the screw layout solver called
\* directly on one instance, with assignments between calls.
SpecAPI == Init /\ [][NextAPI]_vars

\* ------------------------------------------------------------------ claims

Range(f) == {f[i] : i \in DOMAIN f}

\* The steps that call the solid-modeling kernel.
KernelSteps ==
    {"build_box", "build_screw_cylinders", "create_screw_holes", "fillet_box",
     "create_square_nut_holes", "split_box", "create_gasket_slot",
     "create_gasket_press", "build_gasket", "apply_gasket_fillets",
     "build_mount_holders"}

PipelineOrder ==
    <<"initialize", "validate", "instantiate_selectors", "compute_screw_points",
      "build_box", "build_screw_cylinders", "create_screw_holes", "fillet_box",
      "create_square_nut_holes", "split_box", "create_gasket_slot",
      "create_gasket_press", "build_gasket", "apply_gasket_fillets",
      "build_mount_holders">>

StepExpected(q, s) ==
    /\ s = "create_square_nut_holes" => q.screw_type = "WITH_SQUARE_NUT"
    /\ s = "build_mount_holders" => q.mount_holders

ExpectedSteps(q) == SelectSeq(PipelineOrder, LAMBDA s : StepExpected(q, s))

\* C1: a build() that returns has run its steps in the one fixed order, each
\* exactly once, the nut-pocket step iff screw_type is WITH_SQUARE_NUT and the
\* mount-holder step iff mount_holders, and returns the three solids.
C1_FixedOrder ==
    pc = "returned" =>
        /\ steps = ExpectedSteps(p)
        /\ result = <<"box", "lid", "gasket">>
        /\ box.made /\ lid.made /\ gasket.made

\* A returned build that cut nut pockets and added no mount holders.
C1_Witness ==
    /\ pc = "returned"
    /\ "create_square_nut_holes" \in Range(steps)
    /\ "build_mount_holders" \notin Range(steps)
    /\ Len(steps) = 14

\* C2: when the parameters left by initialize() violate an invariant validate()
\* checks, build() ends in that ValueError with no kernel step run and nothing
\* returned.
C2_ValidateFailsFast ==
    (pc \notin {"idle", "validate"} /\ validate(p) # "") =>
        /\ pc = "raised"
        /\ error = validate(p)
        /\ steps = <<"initialize", "validate">>
        /\ Range(steps) \cap KernelSteps = {}
        /\ result = << >>
        /\ ~box.made /\ ~lid.made /\ ~gasket.made

\* A build that validate() ended.
C2_Witness ==
    /\ pc = "raised"
    /\ error = "Inner width must be smaller or equal to inner length."
    /\ steps = <<"initialize", "validate">>

InvalidEnum(q) ==
    \/ q.screw_location \notin ScrewLocation
    \/ q.nut_wa_type \notin NutPrintingWA

\* C3: a build() called while screw_location or nut_wa_type holds a value that
\* is no member of its enum runs no kernel step and does not return.
C3_InvalidEnumFailsFast ==
    (pc # "idle" /\ InvalidEnum(p)) =>
        /\ Range(steps) \cap KernelSteps = {}
        /\ pc # "returned"

\* The five cases in which validate() is to raise.
NoScrews(q) ==
    ~q.corner_screws /\ ~q.middle_length_screws /\ ~q.middle_width_screws
HoleOutOfRange(q) == q.screw_hole_diameter < 2000 \/ q.screw_hole_diameter > 6000
WiderThanLong(q) == q.box_inner_width > q.box_inner_length
TooNarrowForHolders(q) ==
    /\ q.mount_holders /\ q.corner_screws
    /\ q.screw_location = "OUTSIDE_BOX" /\ q.box_inner_width < 31000
HolderTooShort(q) ==
    /\ q.mount_holders /\ q.middle_width_screws
    /\ q.screw_location = "OUTSIDE_BOX"
    /\ q.mount_holder_length < 4 * screw_cylinder_radius(q)

\* C4: validate() raises exactly in the five cases, and changes no parameter.
C4_ValidateCases ==
    last.op = "validate" =>
        /\ error # "" <=>
              \/ NoScrews(last.pre)
              \/ HoleOutOfRange(last.pre)
              \/ WiderThanLong(last.pre)
              \/ TooNarrowForHolders(last.pre)
              \/ HolderTooShort(last.pre)
        /\ p = last.pre

\* validate() raised for the mount-holder length alone.
C4_Witness ==
    /\ last.op = "validate"
    /\ error # ""
    /\ HolderTooShort(p)
    /\ ~NoScrews(p) /\ ~HoleOutOfRange(p) /\ ~WiderThanLong(p)
    /\ ~TooNarrowForHolders(p)

\* C5: in every build() on an instance, the pipeline steps read nut and screw
\* dimensions that exceed the user's by exactly one clearance increment.
C5_ClearanceOncePerInstance ==
    /\ "create_screw_holes" \in Range(steps) =>
          /\ box.csk_diameter = user.screw_head_diameter + 500
          /\ box.hole_depth = user.screw_total_length + 1000
    /\ ("create_square_nut_holes" \in Range(steps) /\ pc # "raised") =>
          /\ box.nut_width = user.square_nut_width + 400
          /\ box.nut_height = user.square_nut_height + 400

Clearanced == {"square_nut_width", "square_nut_height", "screw_head_diameter",
               "screw_total_length"}
MayChange == {"box_inner_width", "box_inner_length", "mount_holder_length"}

\* C6: one initialize() adds 0.4, 0.4, 0.5 and 1.0 to the nut width, nut height,
\* screw head diameter and screw length; besides these only the inner width, the
\* inner length and the mount-holder length may change.
C6_InitializeFrame ==
    last.op = "initialize" =>
        /\ p.square_nut_width = last.pre.square_nut_width + 400
        /\ p.square_nut_height = last.pre.square_nut_height + 400
        /\ p.screw_head_diameter = last.pre.screw_head_diameter + 500
        /\ p.screw_total_length = last.pre.screw_total_length + 1000
        /\ DOMAIN p = DOMAIN last.pre
        /\ \A f \in DOMAIN p \ (Clearanced \cup MayChange) : p[f] = last.pre[f]

\* An initialize() that inflated both inner dimensions.
C6_Witness ==
    /\ last.op = "initialize"
    /\ p.box_inner_width > last.pre.box_inner_width
    /\ p.box_inner_length > last.pre.box_inner_length
    /\ p.square_nut_width = last.pre.square_nut_width + 400

\* The offsets and the list of the claim.
OffsetX(q) ==
    IF q.screw_location = "INSIDE_BOX"
    THEN q.box_inner_width \div 2 - screw_cylinder_radius(q) + 3000
    ELSE (q.box_inner_width + 6000) \div 2 + screw_cylinder_radius(q) - 3000
OffsetY(q) ==
    IF q.screw_location = "INSIDE_BOX"
    THEN q.box_inner_length \div 2 - screw_cylinder_radius(q) + 3000
    ELSE (q.box_inner_length + 6000) \div 2 + screw_cylinder_radius(q) - 3000
Count(b) == IF b THEN 1 ELSE 0

\* C7: compute_screw_points returns the corner points, then the middle-length
\* points, then the middle-width points, of the enabled groups only.
C7_ScrewPoints ==
    (last.op = "compute_screw_points" /\ error = "") =>
        LET ox == OffsetX(p)
            oy == OffsetY(p)
            pts == last.points
            c == IF p.corner_screws THEN 4 ELSE 0
            m == IF p.middle_length_screws THEN 2 ELSE 0
        IN  /\ Len(pts) = 4 * Count(p.corner_screws)
                          + 2 * Count(p.middle_length_screws)
                          + 2 * Count(p.middle_width_screws)
            /\ p.corner_screws =>
                  SubSeq(pts, 1, 4) =
                      << <<ox, oy>>, <<-ox, -oy>>, <<ox, -oy>>, <<-ox, oy>> >>
            /\ p.middle_length_screws =>
                  SubSeq(pts, c + 1, c + 2) = << <<-ox, 0>>, <<ox, 0>> >>
            /\ p.middle_width_screws =>
                  SubSeq(pts, c + m + 1, c + m + 2) = << <<0, -oy>>, <<0, oy>> >>

\* All three groups enabled, inside the box: eight points.
C7_Witness ==
    /\ last.op = "compute_screw_points"
    /\ error = ""
    /\ p.screw_location = "INSIDE_BOX"
    /\ Len(last.points) = 8
    /\ last.points[7] = <<0, -OffsetY(p)>>

\* C8 as stated: groove, press and gasket body share outer and inner rectangle.
C8_SameFootprint ==
    gasket.made =>
        /\ box.slot_outer_width = lid.press_outer_width
        /\ lid.press_outer_width = gasket.outer_width
        /\ box.slot_inner_width = lid.press_inner_width
        /\ lid.press_inner_width = gasket.inner_width
        /\ box.slot_outer_length = lid.press_outer_length
        /\ lid.press_outer_length = gasket.outer_length
        /\ box.slot_inner_length = lid.press_inner_length
        /\ lid.press_inner_length = gasket.inner_length

\* C8, amended: the press and the gasket body share outer and inner rectangle;
\* the groove's outer rectangle is larger, and its inner rectangle smaller, by
\* 2 * gasket_spacing in width and in length.
C8_PressMatchesGasket ==
    gasket.made =>
        /\ lid.press_outer_width = gasket.outer_width
        /\ lid.press_inner_width = gasket.inner_width
        /\ lid.press_outer_length = gasket.outer_length
        /\ lid.press_inner_length = gasket.inner_length
        /\ box.slot_outer_width = gasket.outer_width + 2 * p.gasket_spacing
        /\ box.slot_inner_width = gasket.inner_width - 2 * p.gasket_spacing
        /\ box.slot_outer_length = gasket.outer_length + 2 * p.gasket_spacing
        /\ box.slot_inner_length = gasket.inner_length - 2 * p.gasket_spacing

\* A returned build with a positive gasket spacing.
C8_Witness ==
    /\ pc = "returned"
    /\ gasket.made
    /\ p.gasket_spacing > 0
    /\ box.slot_outer_width > gasket.outer_width

\* C9: the outer dimensions are the inner ones plus two walls (3.0 each), or
\* plus bottom and lid (2.0 each), in every state of the parameters, and the
\* box a build sketches has the outer dimensions of the current parameters.
C9_OuterDimensions ==
    /\ wall_thickness = 3000
    /\ bottom_and_lid_thickness = 2000
    /\ box_outer_width(p) = p.box_inner_width + 6000
    /\ box_outer_length(p) = p.box_inner_length + 6000
    /\ box_outer_height(p) = p.box_inner_height + 4000
    /\ (pc # "idle" /\ box.made) =>
          /\ box.outer_width = p.box_inner_width + 6000
          /\ box.outer_length = p.box_inner_length + 6000
          /\ box.outer_height = p.box_inner_height + 4000

\* Parameters that initialize() inflated and that were assigned to afterwards.
C9_Witness ==
    /\ assigns > 0
    /\ builds > 0
    /\ pc = "idle"
    /\ p.box_inner_width > user.box_inner_width
    /\ box_outer_width(p) = p.box_inner_width + 6000

\* The arguments of examples/generic_enclosure.py
Example ==
    [Defaults EXCEPT !.box_inner_width = 31000,
                     !.box_inner_length = 71000,
                     !.box_inner_height = 16000,
                     !.screw_location = "OUTSIDE_BOX",
                     !.screw_type = "WOOD_SCREW",
                     !.corner_screws = FALSE,
                     !.middle_width_screws = TRUE,
                     !.middle_length_screws = FALSE]

\* C10: the example's build passes initialize and validate, places two screws
\* at (0, -L) and (0, L), sketches a 37 x 77 x 20 box and returns three solids.
C10_Example ==
    (user = Example /\ pc # "idle") =>
        LET L == box_outer_length(p) \div 2 + screw_cylinder_radius(p)
                 - wall_thickness
        IN  /\ pc # "raised"
            /\ error = ""
            /\ "compute_screw_points" \in Range(steps) =>
                  /\ screw_points = << <<0, -L>>, <<0, L>> >>
                  /\ L = 40400
            /\ box.made =>
                  /\ box.outer_width = 37000
                  /\ box.outer_length = 77000
                  /\ box.outer_height = 20000
            /\ pc = "returned" => result = <<"box", "lid", "gasket">>

\* The example's build has returned.
C10_Witness ==
    /\ user = Example
    /\ pc = "returned"
    /\ Len(screw_points) = 2
    /\ Len(result) = 3

AllGroups(q) ==
    q.corner_screws /\ q.middle_length_screws /\ q.middle_width_screws

Distinct(pts) ==
    \A i, j \in DOMAIN pts : i # j => pts[i] # pts[j]

\* C11 as stated: a build that passed validate() with all three screw groups
\* enabled places eight pairwise distinct screw points.
C11_EightDistinct ==
    ("compute_screw_points" \in Range(steps) /\ pc # "raised" /\ AllGroups(p)) =>
        /\ Len(screw_points) = 8
        /\ Distinct(screw_points)

\* C11, amended: such a build places eight points, pairwise distinct exactly
\* when both offsets are non-zero; they are positive for OUTSIDE_BOX and, for
\* INSIDE_BOX, along an axis whose actual_inner_* flag is set.
C11_EightDistinctUnlessZeroOffset ==
    ("compute_screw_points" \in Range(steps) /\ pc # "raised" /\ AllGroups(p)) =>
        /\ Len(screw_points) = 8
        /\ Distinct(screw_points) <=> (OffsetX(p) # 0 /\ OffsetY(p) # 0)
        /\ (p.screw_location = "OUTSIDE_BOX" \/ p.actual_inner_width) =>
              OffsetX(p) > 0
        /\ (p.screw_location = "OUTSIDE_BOX" \/ p.actual_inner_length) =>
              OffsetY(p) > 0

\* Eight distinct points inside the box with both inner dimensions inflated.
C11_Witness ==
    /\ pc = "returned"
    /\ AllGroups(p)
    /\ p.screw_location = "INSIDE_BOX"
    /\ p.actual_inner_width /\ p.actual_inner_length
    /\ Len(screw_points) = 8
    /\ Distinct(screw_points)

\* C12: with INSIDE_BOX placement one initialize() inflates an inner dimension
\* whose actual_inner_* flag is set and whose walls carry screws so that the
\* clear span between opposite screw cylinders is the dimension supplied;
\* otherwise, and with any other placement, the dimension is left unchanged.
C12_ClearSpan ==
    last.op = "initialize" =>
        LET r == screw_cylinder_radius(p)
            inside == last.pre.screw_location = "INSIDE_BOX"
            along_x == /\ inside /\ p.actual_inner_width
                       /\ (p.corner_screws \/ p.middle_length_screws)
            along_y == /\ inside /\ p.actual_inner_length
                       /\ (p.corner_screws \/ p.middle_width_screws)
        IN  /\ IF along_x
               THEN 2 * (screw_width_loc(p) - r) = last.pre.box_inner_width
               ELSE p.box_inner_width = last.pre.box_inner_width
            /\ IF along_y
               THEN 2 * (screw_lenght_loc(p) - r) = last.pre.box_inner_length
               ELSE p.box_inner_length = last.pre.box_inner_length

\* An initialize() that inflated the width and left the length alone.
C12_Witness ==
    /\ last.op = "initialize"
    /\ p.screw_location = "INSIDE_BOX"
    /\ p.actual_inner_width /\ p.corner_screws /\ ~p.actual_inner_length
    /\ p.box_inner_width > last.pre.box_inner_width
    /\ p.box_inner_length = last.pre.box_inner_length
    /\ 2 * (screw_width_loc(p) - screw_cylinder_radius(p)) = last.pre.box_inner_width

NeedsHolderLength(q) ==
    q.mount_holders /\ q.middle_width_screws /\ q.screw_location = "OUTSIDE_BOX"

\* C13: in build() validate() never raises the mount-holder-length error: with
\* mount holders, middle-width screws and OUTSIDE_BOX, initialize() has raised
\* mount_holder_length to at least ceil(4 * screw_cylinder_radius), at
\* validate() and in every state where a kernel step runs.
C13_HolderLengthRaised ==
    /\ error # "mount_holder_length has to be at least 4 * screw_cylinder_radius"
    /\ (pc # "idle" /\ NeedsHolderLength(p)) =>
          /\ p.mount_holder_length >= Ceil(4 * screw_cylinder_radius(p))
          /\ p.mount_holder_length >= 4 * screw_cylinder_radius(p)
          /\ p.mount_holder_length >= user.mount_holder_length

\* A kernel step about to run with the holder length raised from 15.0 to 20.0.
C13_Witness ==
    /\ pc = "build_box"
    /\ NeedsHolderLength(p)
    /\ user.mount_holder_length = 15000
    /\ p.mount_holder_length = 20000
    /\ 4 * screw_cylinder_radius(p) = 19600

\* C14: the Box's bottom face is filleted at most once: by the box-fillet step
\* iff fillet_bottom and no mount holders, by the mount-holder step iff
\* mount_holders.
C14_BottomFilletOnce ==
    /\ box.bottom_fillets <= 1
    /\ ("fillet_box" \in Range(steps) /\ "build_mount_holders" \notin Range(steps)) =>
          box.bottom_fillets = Count(p.fillet_bottom /\ ~p.mount_holders)
    /\ "build_mount_holders" \in Range(steps) =>
          /\ p.mount_holders
          /\ box.bottom_fillets = Count(p.fillet_bottom /\ ~p.mount_holders) + 1
    /\ pc = "returned" =>
          /\ "build_mount_holders" \in Range(steps) <=> p.mount_holders
          /\ box.bottom_fillets =
                IF p.mount_holders THEN 1 ELSE Count(p.fillet_bottom)

\* A returned build with mount holders and fillet_bottom off: one fillet.
C14_Witness ==
    /\ pc = "returned"
    /\ p.mount_holders
    /\ ~p.fillet_bottom
    /\ box.bottom_fillets = 1

====
